---- MODULE Spec2Model ----
(***************************************************************************)
(* Model of MarketingAgent (src/agent.py): the per-user conversation       *)
(* memory, process_query, get_user_conversation_history,                   *)
(* clear_user_memory and run_baseline_test.                                *)
(*                                                                         *)
(* The agent runs on one asyncio event loop: the code between two awaits   *)
(* is one atomic step.  process_query has two steps, split by              *)
(* `await asyncio.to_thread(self.agent_executor.invoke, ...)`.              *)
(* run_baseline_test awaits process_query, so it is suspended exactly      *)
(* while its current process_query is suspended.                           *)
(*                                                                         *)
(* A text is a sequence of string fragments; a ConversationBufferWindow-   *)
(* Memory is an object on a heap, referenced by memory_store and by the    *)
(* local variable `memory` of every suspended process_query.               *)
(***************************************************************************)
EXTENDS Integers, Sequences, FiniteSets, TLC

\* ------------------------------------------------------------------ bounds
MaxCalls == 2        \* process_query calls started in one behaviour of Spec
MaxInflight == 2     \* process_query calls of outside callers suspended at once
WindowCalls == 12    \* process_query calls in one behaviour of SpecWindow

\* ------------------------------------------------------- program constants
K == 10              \* ConversationBufferWindowMemory(k=10)
DefaultLimit == 10   \* get_user_conversation_history(limit=10)
BaselineCap == 5     \* questions[:5]
ConfOk == 85         \* "confidence": 0.85, in hundredths
ConfErr == 0         \* "confidence": 0.0, in hundredths

BaselineUser == "baseline_test"
Users == {"u1", BaselineUser}

\* -------------------------------------------------------------- inputs
Queries == {<<"q1">>}
CtxNone == "None"
CtxEmpty == "{}"
CtxTest == "test_mode"
CtxBad == "unserializable"
\* the contexts the callers of Spec pass; the caller of SpecWindow passes none
Contexts == {CtxEmpty, CtxTest, CtxBad}
Outputs == {<<"Our ", "Campaign", " strategy">>}
Outcomes == {"ok", "raise", "malformed"}
Limits == {1, DefaultLimit}

Min(a, b) == IF a < b THEN a ELSE b
Max(a, b) == IF a > b THEN a ELSE b


\* ------------------------------------------------------------------ state
VARIABLES
    memory_store,        \* self.memory_store: user_id -> memory object, 0 = no key
    heap,                \* memory object -> its chat_memory.messages
    calls,               \* the process_query calls suspended in asyncio.to_thread
    nextId,              \* number of process_query calls started so far
    baseline_questions,  \* self.baseline_questions, loaded at construction
    bl,                  \* the run_baseline_test coroutine
    last,                \* the operation that returned last, with what it returned
    fresh                \* users cleared with no process_query started since

vars == <<memory_store, heap, calls, nextId, baseline_questions, bl, last, fresh>>

\* One object per key of memory_store and one per suspended call (those of
\* outside callers, and the one of run_baseline_test) is all the program can
\* hold on to at once.
NumObjs == Cardinality(Users) + MaxInflight + 1
Objs == 1..NumObjs

\* ---------------------------------------------------------------- messages
HumanMessage(content, id, by) ==
    [role |-> "human", content |-> content, id |-> id, by |-> by]

AIMessage(content, id, by) ==
    [role |-> "ai", content |-> content, id |-> id, by |-> by]

\* json.dumps(context) of the contexts the model draws
json_dumps(ctx) ==
    CASE ctx = CtxTest -> "{\"test_mode\": true}"
      [] ctx = CtxEmpty -> "{}"
      [] OTHER -> "null"

\* `if context:` - None and the empty dict are falsy
Truthy(ctx) == ctx \notin {CtxNone, CtxEmpty}

\* f"Context: {json.dumps(context)}\n\nQuery: {query}"
AugmentQuery(query, ctx) ==
    <<"Context: ", json_dumps(ctx), "\n\nQuery: ">> \o query

\* lines 563-564: the text process_query sends to the agent; `query` is
\* rebound to it
QueryAsSent(query, ctx) ==
    IF Truthy(ctx) THEN AugmentQuery(query, ctx) ELSE query

\* ------------------------------------------------------------ memory, heap
Referenced(store, cs) ==
    {store[u] : u \in Users} \cup {c.memory : c \in cs}

\* Reference counting: an object nothing refers to is gone.
Collect(store, cs, hp) ==
    [store |-> store, calls |-> cs,
     heap |-> [o \in Objs |-> IF o \in Referenced(store, cs) THEN hp[o] ELSE <<>>]]

FreshObj(store, cs) ==
    CHOOSE o \in Objs \ Referenced(store, cs) :
        \A p \in Objs \ Referenced(store, cs) : o <= p

\* _get_user_memory: the user's memory object, created when the key is absent
_get_user_memory(store, hp, cs, user_id) ==
    IF store[user_id] # 0
    THEN [store |-> store, heap |-> hp, memory |-> store[user_id]]
    ELSE LET o == FreshObj(store, cs)
         IN [store |-> [store EXCEPT ![user_id] = o],
             heap |-> [hp EXCEPT ![o] = <<>>], memory |-> o]

\* the messages stored for a user; none when there is no session
Messages(store, hp, user_id) ==
    IF store[user_id] = 0 THEN <<>> ELSE hp[store[user_id]]

\* Python's seq[start:] 
SliceFrom(seq, start) ==
    LET n == Len(seq)
        from == IF start < 0 THEN Max(n + start, 0) ELSE Min(start, n)
    IN SubSeq(seq, from + 1, n)

\* Python's seq[:stop] for stop >= 0
SliceTo(seq, stop) == SubSeq(seq, 1, Min(stop, Len(seq)))

\* get_user_conversation_history: messages[-limit*2:] paired up by position
PairUp(messages) ==
    [j \in 1..(Len(messages) \div 2) |->
        [user_message |-> messages[2 * j - 1].content,
         agent_response |-> messages[2 * j].content]]

get_user_conversation_history(store, hp, user_id, limit) ==
    IF store[user_id] = 0
    THEN <<>>
    ELSE PairUp(SliceFrom(hp[store[user_id]], -(limit * 2)))

\* faulty variant: empties the session's message list and keeps the key
ClearEmptiesMutant(store, hp, user_id) ==
    IF store[user_id] # 0
    THEN [store |-> store, heap |-> [hp EXCEPT ![store[user_id]] = <<>>]]
    ELSE [store |-> store, heap |-> hp]

\* faulty variant: self.memory_store.clear()
ClearAllMutant(store, hp, user_id) ==
    IF store[user_id] # 0
    THEN [store |-> [u \in Users |-> 0], heap |-> hp]
    ELSE [store |-> store, heap |-> hp]

\* clear_user_memory: del self.memory_store[user_id] when the key is there
clear_user_memory(store, hp, user_id) ==
    IF store[user_id] # 0
    THEN [store |-> [store EXCEPT ![user_id] = 0], heap |-> hp]
    ELSE [store |-> store, heap |-> hp]


\* ------------------------------------------------------------ process_query
NoResult ==
    [response |-> <<>>, haserror |-> FALSE, error |-> <<>>,
     confidence |-> -1, user_id |-> ""]

\* lines 579-585: the success result (no "error" key)
OkResult(output, user_id) ==
    [response |-> output, haserror |-> FALSE, error |-> <<>>,
     confidence |-> ConfOk, user_id |-> user_id]

\* faulty variant: the error result built without its "error" key
ErrorResultNoErrorMutant(err, user_id) ==
    [response |-> <<"I encountered an error processing your marketing query: ">> \o err,
     haserror |-> FALSE, error |-> <<>>,
     confidence |-> ConfErr, user_id |-> user_id]

\* lines 587-595: the result of the except branch
ErrorResult(err, user_id) ==
    [response |-> <<"I encountered an error processing your marketing query: ">> \o err,
     haserror |-> TRUE, error |-> err,
     confidence |-> ConfErr, user_id |-> user_id]

\* str(e) of the failures the model draws
ErrJson == <<"Object of type set is not JSON serializable">>
ErrInvoke == <<"agent failure">>
ErrKey == <<"'output'">>

\* A suspended call: its locals `user_id`, `query` (rebound), `memory`, the
\* original query text, and what happened to its user since it started
\* (cleared; the calls that recorded an exchange).
Call(id, user_id, original, ctx, memory, owner) ==
    [id |-> id, user_id |-> user_id, query |-> QueryAsSent(original, ctx),
     original |-> original, ctx |-> ctx, memory |-> memory, owner |-> owner,
     cleared |-> FALSE, seen |-> {}]

\* faulty variant: the original query text is stored
StoredQueryOriginalMutant(c) == c.original

\* line 576: add_user_message(query), `query` being the rebound local
StoredQuery(c) == c.query

\* faulty variant: the message list is replaced by the new exchange
RecordExchangeOverwriteMutant(messages, c, output) ==
    <<HumanMessage(StoredQuery(c), c.id, c.user_id),
      AIMessage(output, c.id, c.user_id)>>

\* lines 576-577 when result["output"] is there: both messages are appended
RecordExchange(messages, c, output) ==
    messages \o <<HumanMessage(StoredQuery(c), c.id, c.user_id),
                  AIMessage(output, c.id, c.user_id)>>

\* lines 576-577 when result has no "output": add_user_message has run when
\* result["output"] raises KeyError
RecordUserTurnOnly(messages, c) ==
    Append(messages, HumanMessage(StoredQuery(c), c.id, c.user_id))

\* lines 575-595: what process_query does when the agent call is over.
\* outcome: "ok" (a result with "output"), "raise" (invoke raised),
\* "malformed" (a result without "output").
ProcessQueryEnd(hp, c, outcome, output) ==
    CASE outcome = "ok" ->
           [heap |-> [hp EXCEPT ![c.memory] = RecordExchange(@, c, output)],
            result |-> OkResult(output, c.user_id)]
      [] outcome = "malformed" ->
           [heap |-> [hp EXCEPT ![c.memory] = RecordUserTurnOnly(@, c)],
            result |-> ErrorResult(ErrKey, c.user_id)]
      [] OTHER ->
           [heap |-> hp, result |-> ErrorResult(ErrInvoke, c.user_id)]

\* what a finished call leaves in the calls still suspended for the same user
NoteExchange(cs, c, outcome) ==
    IF outcome = "ok" /\ ~c.cleared
    THEN {IF d.user_id = c.user_id THEN [d EXCEPT !.seen = @ \cup {c.id}] ELSE d
            : d \in cs}
    ELSE cs

NoteCleared(cs, user_id) ==
    {IF d.user_id = user_id THEN [d EXCEPT !.cleared = TRUE] ELSE d : d \in cs}


\* ------------------------------------------------------- baseline questions
\* A record of baseline.json: hasq says whether it has a "question" key,
\* kwok whether its "keywords" is a list of strings.
QCampaign ==
    [id |-> "m1", hasq |-> TRUE, question |-> <<"q1">>,
     kwok |-> TRUE, keywords |-> <<"Campaign">>]
QRoi ==
    [id |-> "m2", hasq |-> TRUE, question |-> <<"q2">>,
     kwok |-> TRUE, keywords |-> <<"campaign", "roi">>]
QNoText ==
    [id |-> "m3", hasq |-> FALSE, question |-> <<>>,
     kwok |-> TRUE, keywords |-> <<"campaign">>]
QBadKeywords ==
    [id |-> "m4", hasq |-> TRUE, question |-> <<"q1">>,
     kwok |-> FALSE, keywords |-> <<>>]

QuestionSets ==
    {<<>>, <<QCampaign, QNoText, QBadKeywords, QRoi>>}

NoQuestionId == ""
QuestionIds == {NoQuestionId, "m1", "m4", "m9"}

\* ------------------------------------------------ _evaluate_baseline_response
\* str.lower() on the fragments the model draws
Lower(frag) ==
    CASE frag = "Campaign" -> "campaign"
      [] frag = "Our " -> "our "
      [] frag = "I encountered an error processing your marketing query: " ->
             "i encountered an error processing your marketing query: "
      [] OTHER -> frag

lower(text) == [i \in DOMAIN text |-> Lower(text[i])]

\* len(text)
TextLen(text) ==
    LET RECURSIVE sum(_)
        sum(i) == IF i = 0 THEN 0 ELSE Len(text[i]) + sum(i - 1)
    IN sum(Len(text))

\* `word in text`: the fragments are cut so that a word is found as a fragment
Contains(text, word) == \E i \in DOMAIN text : text[i] = word

marketing_terms ==
    <<"platform", "compliance", "strategy", "campaign", "audience", "creative">>

CountIn(words, text) ==
    Cardinality({i \in DOMAIN words : Contains(text, words[i])})

\* Scores are counted in units of 1/ScoreUnit.
ScoreUnit == 6 * 1000
PassMark == (6 * ScoreUnit) \div 10

\* faulty variant: the keywords are looked up without keyword.lower()
EvaluateCaseSensitiveMutant(question, response) ==
    IF ~question.kwok
    THEN [passed |-> FALSE, confidence |-> 0, haserror |-> TRUE,
          keyword_matches |-> 0, total_keywords |-> 0, response_length |-> 0]
    ELSE
    LET expected_keywords == question.keywords
        response_lower == lower(response)
        keyword_matches == CountIn(expected_keywords, response_lower)
        n == Len(expected_keywords)
        keyword_part == IF n > 0
                        THEN (4 * ScoreUnit * keyword_matches) \div (10 * n)
                        ELSE (4 * ScoreUnit) \div 20
        marketing_part == (4 * ScoreUnit * CountIn(marketing_terms, response_lower))
                              \div (10 * Len(marketing_terms))
        length_part == (2 * ScoreUnit * Min(TextLen(response), 200)) \div (10 * 200)
        overall_score == keyword_part + marketing_part + length_part
    IN [passed |-> overall_score >= PassMark, confidence |-> overall_score,
        haserror |-> FALSE, keyword_matches |-> keyword_matches,
        total_keywords |-> n, response_length |-> TextLen(response)]

\* lines 673-702
_evaluate_baseline_response(question, response) ==
    IF ~question.kwok
    THEN [passed |-> FALSE, confidence |-> 0, haserror |-> TRUE,
          keyword_matches |-> 0, total_keywords |-> 0, response_length |-> 0]
    ELSE
    LET expected_keywords == question.keywords
        response_lower == lower(response)
        keyword_matches == CountIn(lower(expected_keywords), response_lower)
        n == Len(expected_keywords)
        keyword_part == IF n > 0
                        THEN (4 * ScoreUnit * keyword_matches) \div (10 * n)
                        ELSE (4 * ScoreUnit) \div 20
        marketing_part == (4 * ScoreUnit * CountIn(marketing_terms, response_lower))
                              \div (10 * Len(marketing_terms))
        length_part == (2 * ScoreUnit * Min(TextLen(response), 200)) \div (10 * 200)
        overall_score == keyword_part + marketing_part + length_part
    IN [passed |-> overall_score >= PassMark, confidence |-> overall_score,
        haserror |-> FALSE, keyword_matches |-> keyword_matches,
        total_keywords |-> n, response_length |-> TextLen(response)]

\* ------------------------------------------------------- run_baseline_test
\* faulty variant: a question_id that matches nothing selects every question
SelectQuestionsFallbackMutant(questions, question_id) ==
    SliceTo(IF /\ question_id # NoQuestionId
               /\ SelectSeq(questions, LAMBDA q : q.id = question_id) # <<>>
            THEN SelectSeq(questions, LAMBDA q : q.id = question_id)
            ELSE questions,
            BaselineCap)

\* lines 626-628 and the [:5] of line 631
SelectQuestions(questions, question_id) ==
    SliceTo(IF question_id # NoQuestionId
            THEN SelectSeq(questions, LAMBDA q : q.id = question_id)
            ELSE questions,
            BaselineCap)

\* lines 641-649
ResultEntry(question, evaluation) ==
    [question_id |-> question.id, passed |-> evaluation.passed,
     confidence |-> evaluation.confidence, haserror |-> FALSE]

\* line 667: the mean of the results' confidences as the fraction
\* sum / count of score units, and 0 (written 0 / 1) without results
NoAverage == [sum |-> 0, count |-> 1]

RECURSIVE SumConfidence(_)
SumConfidence(results) ==
    IF results = <<>> THEN 0
    ELSE Head(results).confidence + SumConfidence(Tail(results))

average_confidence(results) ==
    IF results # <<>>
    THEN [sum |-> SumConfidence(results), count |-> Len(results)]
    ELSE NoAverage

NoReport ==
    [kind |-> "none", total_questions |-> 0, passed |-> 0,
     average_confidence |-> NoAverage, results |-> <<>>]

\* line 624
NoQuestionsError ==
    [kind |-> "error", total_questions |-> 0, passed |-> 0,
     average_confidence |-> NoAverage, results |-> <<>>]

\* a KeyError that leaves run_baseline_test: question["question"] raises in
\* the try block (line 635) and again in its handler (line 654)
Raised(results) ==
    [kind |-> "raised", total_questions |-> 0, passed |-> 0,
     average_confidence |-> NoAverage, results |-> results]

\* lines 662-669
Report(results) ==
    [kind |-> "report", total_questions |-> Len(results),
     passed |-> Cardinality({i \in DOMAIN results : results[i].passed}),
     average_confidence |-> average_confidence(results),
     results |-> results]

\* Lines 631-660 from the top of the loop: the run goes on until it awaits
\* the agent call of the next question ("await"), a record without
\* "question" makes it raise ("raised"), or the questions are used up and
\* it clears the reserved user and returns ("report").
BaselineAdvance(store, hp, cs, id, questions, results) ==
    IF questions = <<>>
    THEN LET cl == clear_user_memory(store, hp, BaselineUser)
         IN [kind |-> "report", store |-> cl.store, heap |-> cl.heap,
             calls |-> NoteCleared(cs, BaselineUser), report |-> Report(results)]
    ELSE IF ~Head(questions).hasq
    THEN [kind |-> "raised", store |-> store, heap |-> hp, calls |-> cs,
          report |-> Raised(results)]
    ELSE LET g == _get_user_memory(store, hp, cs, BaselineUser)
             c == Call(id, BaselineUser, Head(questions).question, CtxTest,
                       g.memory, "baseline")
         IN [kind |-> "await", store |-> g.store, heap |-> g.heap,
             calls |-> cs \cup {c}, report |-> NoReport]


\* ------------------------------------------------------------------- Init
Idle == [pc |-> "idle", question_id |-> NoQuestionId, questions |-> <<>>,
         results |-> <<>>]

\* what the step just taken was, and what it returned to its caller
Event(op, user_id) ==
    [op |-> op, user_id |-> user_id, id |-> 0, result |-> NoResult,
     outcome |-> "", original |-> <<>>, ctx |-> CtxNone, limit |-> 0, history |-> <<>>, question_id |-> NoQuestionId,
     report |-> NoReport, cleared |-> FALSE, seen |-> {}]

\* __init__ (lines 46-64): an empty memory_store, and the questions of
\* baseline.json
Init ==
    /\ memory_store = [u \in Users |-> 0]
    /\ heap = [o \in Objs |-> <<>>]
    /\ calls = {}
    /\ nextId = 0
    /\ baseline_questions \in QuestionSets
    /\ bl = Idle
    /\ last = Event("init", "")
    /\ fresh = [u \in Users |-> FALSE]

CallerCalls == {c \in calls : c.owner = "caller"}

\* ---------------------------------------------------------------- actions
\* process_query, lines 558-573: up to the await of the agent call; when
\* json.dumps(context) raises, the except branch returns at once
ProcessQueryBegin(user_id, query, ctx, maxCalls, maxInflight) ==
    /\ nextId < maxCalls
    /\ Cardinality(CallerCalls) < maxInflight
    /\ LET g == _get_user_memory(memory_store, heap, calls, user_id)
           c == Call(nextId + 1, user_id, query, ctx, g.memory, "caller")
           cs == IF ctx = CtxBad THEN calls ELSE calls \cup {c}
           n == Collect(g.store, cs, g.heap)
       IN /\ memory_store' = n.store
          /\ calls' = n.calls
          /\ heap' = n.heap
          /\ last' = IF ctx = CtxBad
                     THEN [Event("process_query", user_id) EXCEPT
                             !.id = nextId + 1, !.outcome = "json",
                             !.original = query, !.ctx = ctx,
                             !.result = ErrorResult(ErrJson, user_id)]
                     ELSE Event("process_query_begin", user_id)
    /\ nextId' = nextId + 1
    /\ fresh' = [fresh EXCEPT ![user_id] = FALSE]
    /\ UNCHANGED <<baseline_questions, bl>>

\* process_query, lines 575-595: the agent call is over
ProcessQueryReturn(c, outcome, output) ==
    /\ c \in CallerCalls
    /\ LET e == ProcessQueryEnd(heap, c, outcome, output)
           cs == NoteExchange(calls \ {c}, c, outcome)
           n == Collect(memory_store, cs, e.heap)
       IN /\ memory_store' = n.store
          /\ calls' = n.calls
          /\ heap' = n.heap
          /\ last' = [Event("process_query", c.user_id) EXCEPT
                        !.id = c.id, !.result = e.result,
                        !.outcome = outcome, !.original = c.original,
                        !.ctx = c.ctx,
                        !.cleared = c.cleared, !.seen = c.seen]
    /\ UNCHANGED <<nextId, baseline_questions, bl, fresh>>

\* get_user_conversation_history, lines 597-614
GetHistory(user_id, limit) ==
    /\ last' = [Event("get_user_conversation_history", user_id) EXCEPT
                  !.limit = limit,
                  !.history = get_user_conversation_history(
                                  memory_store, heap, user_id, limit)]
    /\ UNCHANGED <<memory_store, heap, calls, nextId, baseline_questions, bl, fresh>>

\* clear_user_memory, lines 616-619
ClearUserMemory(user_id) ==
    /\ LET cl == clear_user_memory(memory_store, heap, user_id)
           cs == NoteCleared(calls, user_id)
           n == Collect(cl.store, cs, cl.heap)
       IN /\ memory_store' = n.store
          /\ calls' = n.calls
          /\ heap' = n.heap
    /\ last' = Event("clear_user_memory", user_id)
    /\ fresh' = [fresh EXCEPT ![user_id] = TRUE]
    /\ UNCHANGED <<nextId, baseline_questions, bl>>

\* what a run that stopped, or went on to its next agent call, leaves
BaselineStep(adv, question_id, questions, results, ev) ==
    /\ adv.kind = "await" => nextId < MaxCalls
    /\ LET n == Collect(adv.store, adv.calls, adv.heap)
       IN /\ memory_store' = n.store
          /\ calls' = n.calls
          /\ heap' = n.heap
    /\ nextId' = IF adv.kind = "await" THEN nextId + 1 ELSE nextId
    /\ bl' = IF adv.kind = "await"
             THEN [pc |-> "await", question_id |-> question_id,
                   questions |-> questions, results |-> results]
             ELSE Idle
    /\ last' = [ev EXCEPT
                  !.op = IF adv.kind = "await" THEN "run_baseline_await"
                         ELSE "run_baseline_test",
                  !.question_id = question_id,
                  !.report = adv.report]
    /\ fresh' = CASE adv.kind = "await" -> [fresh EXCEPT ![BaselineUser] = FALSE]
                  [] adv.kind = "report" -> [fresh EXCEPT ![BaselineUser] = TRUE]
                  [] OTHER -> fresh
    /\ UNCHANGED baseline_questions

\* run_baseline_test, lines 623-637: from the call to the first await, or to
\* the return when there is nothing to await
RunBaselineBegin(question_id) ==
    /\ bl.pc = "idle"
    /\ IF baseline_questions = <<>>
       THEN /\ last' = [Event("run_baseline_test", BaselineUser) EXCEPT
                          !.question_id = question_id,
                          !.report = NoQuestionsError]
            /\ UNCHANGED <<memory_store, heap, calls, nextId,
                           baseline_questions, bl, fresh>>
       ELSE LET questions == SelectQuestions(baseline_questions, question_id)
            IN BaselineStep(
                   BaselineAdvance(memory_store, heap, calls, nextId + 1,
                                   questions, <<>>),
                   question_id, questions, <<>>,
                   Event("run_baseline_test", BaselineUser))

\* run_baseline_test, lines 633-669: the awaited process_query is over; its
\* response is scored and the run goes on
RunBaselineResume(c, outcome, output) ==
    /\ bl.pc = "await"
    /\ c \in calls
    /\ c.owner = "baseline"
    /\ LET e == ProcessQueryEnd(heap, c, outcome, output)
           cs == NoteExchange(calls \ {c}, c, outcome)
           question == Head(bl.questions)
           evaluation == _evaluate_baseline_response(question, e.result.response)
           results == Append(bl.results, ResultEntry(question, evaluation))
       IN BaselineStep(
              BaselineAdvance(memory_store, e.heap, cs, nextId + 1,
                              Tail(bl.questions), results),
              bl.question_id, Tail(bl.questions), results,
              [Event("run_baseline_test", BaselineUser) EXCEPT
                 !.id = c.id, !.result = e.result,
                 !.outcome = outcome, !.original = c.original, !.ctx = c.ctx,
                 !.cleared = c.cleared, !.seen = c.seen])

Next ==
    \/ \E u \in Users, q \in Queries, ctx \in Contexts :
           ProcessQueryBegin(u, q, ctx, MaxCalls, MaxInflight)
    \/ \E c \in calls, outcome \in Outcomes, output \in Outputs :
           ProcessQueryReturn(c, outcome, output)
    \/ \E u \in Users, limit \in Limits : GetHistory(u, limit)
    \/ \E u \in Users : ClearUserMemory(u)
    \/ \E question_id \in QuestionIds : RunBaselineBegin(question_id)
    \/ \E c \in calls, outcome \in Outcomes, output \in Outputs :
           RunBaselineResume(c, outcome, output)

Spec == Init /\ [][Next]_vars

\* One caller who sends one query after another, each answered or failed
\* by the agent, and reads the history back.
WindowUser == "u1"
WindowLimit == 1000

InitWindow == Init /\ baseline_questions = <<>>

NextWindow ==
    \/ \E q \in Queries : ProcessQueryBegin(WindowUser, q, CtxNone, WindowCalls, 1)
    \/ \E c \in calls, outcome \in {"ok", "raise"}, output \in Outputs :
           ProcessQueryReturn(c, outcome, output)
    \/ GetHistory(WindowUser, WindowLimit)

SpecWindow == InitWindow /\ [][NextWindow]_vars

\* One caller whose queries are answered or fail one after another, while
\* histories are read with limits from 0 upwards, the caller's own and that
\* of a user who never sent a query.
HistoryCalls == 3
HistoryLimits == {0, 1, 2, DefaultLimit}

NextHistory ==
    \/ \E q \in Queries : ProcessQueryBegin(WindowUser, q, CtxNone, HistoryCalls, 1)
    \/ \E c \in calls, outcome \in {"ok", "raise"}, output \in Outputs :
           ProcessQueryReturn(c, outcome, output)
    \/ \E u \in Users, limit \in HistoryLimits : GetHistory(u, limit)

SpecHistory == InitWindow /\ [][NextHistory]_vars

\* ------------------------------------------------------------ construction
\* What __init__ finds under agent_path: each of rag/vectorstore,
\* rag/knowledge_base.ttl and baseline.json is there and loads ("present"),
\* is there and fails to load ("broken"), or is not there ("absent").
Files == {"present", "broken", "absent"}
Environments == [vectorstore : Files, knowledge_base : Files, baseline : Files]

\* lines 74-91; `logger` says whether self.logger is assigned at the call.
\* Without it self.logger.warning (line 88) raises AttributeError inside the
\* try block, and self.logger.error (line 90) raises it again in the handler.
_initialize_retriever(vectorstore, logger) ==
    LET intry == IF vectorstore = "present" THEN "done"
                 ELSE IF vectorstore = "broken" THEN "except"
                 ELSE IF logger THEN "done" ELSE "except"
    IN IF intry = "done"
       THEN [raised |-> FALSE, retriever |-> vectorstore = "present"]
       ELSE IF logger
       THEN [raised |-> FALSE, retriever |-> FALSE]
       ELSE [raised |-> TRUE, retriever |-> FALSE]

\* lines 93-107, the same pattern with lines 103 and 105
_initialize_rdf_knowledge(knowledge_base, logger) ==
    LET intry == IF knowledge_base = "present" THEN "done"
                 ELSE IF knowledge_base = "broken" THEN "except"
                 ELSE IF logger THEN "done" ELSE "except"
    IN IF intry = "done"
       THEN [raised |-> FALSE, rdf_kb |-> knowledge_base = "present",
             sparql_generator |-> knowledge_base = "present"]
       ELSE IF logger
       THEN [raised |-> FALSE, rdf_kb |-> FALSE, sparql_generator |-> FALSE]
       ELSE [raised |-> TRUE, rdf_kb |-> FALSE, sparql_generator |-> FALSE]

\* lines 109-157: the names of the tools, in the order they are appended
_initialize_tools(retriever, rdf_kb, sparql_generator) ==
    <<"platform_compliance_check", "creative_strategy_generator",
      "market_intelligence", "n8n_workflow_simulator">>
    \o (IF retriever THEN <<"marketing_knowledge_search">> ELSE <<>>)
    \o (IF rdf_kb /\ sparql_generator
        THEN <<"structured_marketing_query">> ELSE <<>>)

\* lines 534-544: only a failing load reaches the handler's self.logger.error
_load_baseline_questions(baseline, logger) ==
    [raised |-> baseline = "broken" /\ ~logger, loaded |-> baseline = "present"]

NoAgent ==
    [raised |-> TRUE, retriever |-> FALSE, rdf_kb |-> FALSE,
     sparql_generator |-> FALSE, tools |-> <<>>, logger |-> FALSE]

\* lines 46-64: self.logger is assigned last (line 64), so every initializer
\* runs without it
__init__(env) ==
    LET r == _initialize_retriever(env.vectorstore, FALSE)
        k == _initialize_rdf_knowledge(env.knowledge_base, FALSE)
        b == _load_baseline_questions(env.baseline, FALSE)
    IN IF r.raised \/ k.raised \/ b.raised
       THEN NoAgent
       ELSE [raised |-> FALSE, retriever |-> r.retriever, rdf_kb |-> k.rdf_kb,
             sparql_generator |-> k.sparql_generator,
             tools |-> _initialize_tools(r.retriever, k.rdf_kb,
                                         k.sparql_generator),
             logger |-> TRUE]

\* ---------------------------------------------------------- tool adapters
\* What a retrieval collaborator does with a query: it raises, or it finds
\* the documents `docs`.
Found ==
    {[raises |-> TRUE, docs |-> <<>>],
     [raises |-> FALSE, docs |-> <<>>],
     [raises |-> FALSE, docs |-> <<"d1", "d2">>],
     [raises |-> FALSE, docs |-> <<"d1", "d2", "d3", "d4", "d5", "d6">>]}

RECURSIVE Join(_, _)
Join(texts, sep) ==
    IF texts = <<>> THEN <<>>
    ELSE IF Len(texts) = 1 THEN <<texts[1]>>
    ELSE <<texts[1], sep>> \o Join(Tail(texts), sep)

RagTop == 3
SparqlTop == 5

\* lines 496-509
_rag_search(retriever, found) ==
    IF ~retriever THEN <<"RAG retrieval not available">>
    ELSE IF found.raises THEN <<"RAG search error: ", "e">>
    ELSE IF found.docs = <<>> THEN <<"No relevant marketing information found">>
    ELSE Join(SliceTo(found.docs, RagTop), "\n\n")

\* lines 511-532
_sparql_query(rdf_kb, sparql_generator, found) ==
    IF ~rdf_kb \/ ~sparql_generator THEN <<"RDF knowledge base not available">>
    ELSE IF found.raises THEN <<"SPARQL query error: ", "e">>
    ELSE IF found.docs = <<>>
    THEN <<"No results found in structured knowledge base">>
    ELSE <<"SPARQL Query: ", "sparql", "\n\nResults:\n">>
             \o Join(SliceTo(found.docs, SparqlTop), "\n")

\* ------------------------------------------------- _simulate_n8n_workflow
\* The workflow descriptions are sequences of characters, so that `in` is
\* the substring test it is in Python.
ContentApprovalProcess ==
    <<"c", "o", "n", "t", "e", "n", "t", " ", "a", "p", "p", "r", "o", "v",
      "a", "l", " ", "p", "r", "o", "c", "e", "s", "s">>
OptimizeCampaignSpend ==
    <<"o", "p", "t", "i", "m", "i", "z", "e", " ", "c", "a", "m", "p", "a",
      "i", "g", "n", " ", "s", "p", "e", "n", "d">>
CampaignOptimization ==
    <<"C", "a", "m", "p", "a", "i", "g", "n", " ", "O", "p", "t", "i", "m",
      "i", "z", "a", "t", "i", "o", "n">>
ContentCalendar ==
    <<"c", "o", "n", "t", "e", "n", "t", " ", "c", "a", "l", "e", "n", "d",
      "a", "r">>
WeeklyNewsletter ==
    <<"w", "e", "e", "k", "l", "y", " ", "n", "e", "w", "s", "l", "e", "t",
      "t", "e", "r">>

Descriptions ==
    {ContentApprovalProcess, OptimizeCampaignSpend, CampaignOptimization,
     ContentCalendar, WeeklyNewsletter, <<>>}

\* str.lower() on the capital letters the descriptions hold
LowerChar(ch) ==
    CASE ch = "C" -> "c"
      [] ch = "O" -> "o"
      [] OTHER -> ch

LowerChars(text) == [i \in DOMAIN text |-> LowerChar(text[i])]

\* `word in text` on character sequences
IsSubstring(word, text) ==
    \E i \in 0..(Len(text) - Len(word)) :
        SubSeq(text, i + 1, i + Len(word)) = word

WordContent == <<"c", "o", "n", "t", "e", "n", "t">>
WordApproval == <<"a", "p", "p", "r", "o", "v", "a", "l">>
WordCampaign == <<"c", "a", "m", "p", "a", "i", "g", "n">>
WordOptimization ==
    <<"o", "p", "t", "i", "m", "i", "z", "a", "t", "i", "o", "n">>

\* lines 422-444
ContentApprovalBundle ==
    [workflow_name |-> "Content Approval & Distribution",
     trigger |-> "Webhook - Content Upload",
     nodes |-> <<"HTTP Request", "OCR", "GPT-4 Analysis", "Conditional",
                 "Email", "Social Media Posting">>,
     expected_outcomes |-> <<"Automated compliance checking",
                             "Reduced manual review time",
                             "Consistent brand messaging",
                             "Platform-specific content optimization">>,
     automation_benefits |-> <<"85% reduction in review time",
                               "100% compliance checking",
                               "Multi-platform distribution",
                               "Audit trail for all content">>]

\* lines 447-469
CampaignOptimizationBundle ==
    [workflow_name |-> "Campaign Performance Optimization",
     trigger |-> "Schedule - Daily at 9 AM",
     nodes |-> <<"API Call", "Data Analysis", "Conditional",
                 "Budget Adjustment", "Slack Notification",
                 "Report Generation">>,
     expected_outcomes |-> <<"Automatic budget optimization",
                             "Real-time performance monitoring",
                             "Proactive campaign adjustments",
                             "Data-driven decision making">>,
     automation_benefits |-> <<"24/7 campaign monitoring",
                               "Immediate response to performance changes",
                               "Optimized ad spend allocation",
                               "Improved ROI tracking">>]

\* lines 472-488: the fallback leaves automation_benefits as initialised
GenericBundle ==
    [workflow_name |-> "Generic Marketing Automation",
     trigger |-> "Custom trigger based on requirements",
     nodes |-> <<"Data Input", "Processing", "Decision Logic",
                 "Action Execution", "Monitoring">>,
     expected_outcomes |-> <<"Streamlined marketing processes",
                             "Consistent execution",
                             "Data-driven insights",
                             "Scalable operations">>,
     automation_benefits |-> <<>>]

\* faulty variant: the campaign bundle for any description with "campaign"
SimulateCampaignOnlyMutant(workflow_description) ==
    LET description_lower == LowerChars(workflow_description)
    IN IF /\ IsSubstring(WordContent, description_lower)
          /\ IsSubstring(WordApproval, description_lower)
       THEN ContentApprovalBundle
       ELSE IF IsSubstring(WordCampaign, description_lower)
       THEN CampaignOptimizationBundle
       ELSE GenericBundle

\* lines 406-494
_simulate_n8n_workflow(workflow_description) ==
    LET description_lower == LowerChars(workflow_description)
    IN IF /\ IsSubstring(WordContent, description_lower)
          /\ IsSubstring(WordApproval, description_lower)
       THEN ContentApprovalBundle
       ELSE IF /\ IsSubstring(WordCampaign, description_lower)
               /\ IsSubstring(WordOptimization, description_lower)
       THEN CampaignOptimizationBundle
       ELSE GenericBundle

\* ------------------------------------------------------- scoring inputs
QNoKeywords ==
    [id |-> "s0", hasq |-> TRUE, question |-> <<"q1">>,
     kwok |-> TRUE, keywords |-> <<>>]
QOneKeyword ==
    [id |-> "s1", hasq |-> TRUE, question |-> <<"q1">>,
     kwok |-> TRUE, keywords |-> <<"roi">>]
QTwoKeywords ==
    [id |-> "s2", hasq |-> TRUE, question |-> <<"q1">>,
     kwok |-> TRUE, keywords |-> <<"roi", "seo">>]
QThreeKeywords ==
    [id |-> "s3", hasq |-> TRUE, question |-> <<"q1">>,
     kwok |-> TRUE, keywords |-> <<"Campaign", "roi", "seo">>]

ScoreQuestions ==
    {QNoKeywords, QOneKeyword, QTwoKeywords, QThreeKeywords, QBadKeywords}

\* a fragment of 100 characters
Pad ==
    "xxxxxxxxxxxxxxxxxxxxxxxxxxxxxxxxxxxxxxxxxxxxxxxxxxxxxxxxxxxxxxxxxxxxxxxxxxxxxxxxxxxxxxxxxxxxxxxxxxxx"

Words == <<"Campaign", "roi", "seo", "platform", "strategy", "audience">>
Pads == 0..2

\* the response made of the chosen words followed by `pads` pad fragments
ResponseOf(chosen, pads) ==
    SelectSeq(Words, LAMBDA w : w \in chosen) \o [i \in 1..pads |-> Pad]

Responses ==
    {ResponseOf(chosen, pads) :
         chosen \in SUBSET {Words[i] : i \in DOMAIN Words}, pads \in Pads}

LongEnough == 200

\* ------------------------------------------------------ the agent's tools
\* An agent is constructed under some environment; on a constructed agent
\* the adapters, the workflow simulator and the scoring are called. `last`
\* holds the call just made, the agent it was made on, and what it returned.
ToolEvent(op, agent, input, output) ==
    [op |-> op, agent |-> agent, input |-> input, output |-> output]

InitTools ==
    /\ memory_store = [u \in Users |-> 0]
    /\ heap = [o \in Objs |-> <<>>]
    /\ calls = {}
    /\ nextId = 0
    /\ baseline_questions = <<>>
    /\ bl = Idle
    /\ last = ToolEvent("start", NoAgent, <<>>, <<>>)
    /\ fresh = [u \in Users |-> FALSE]

Construct(env) ==
    /\ last' = ToolEvent("__init__", __init__(env), env, <<>>)
    /\ UNCHANGED <<memory_store, heap, calls, nextId, baseline_questions, bl, fresh>>

RagSearch(found) ==
    /\ ~last.agent.raised
    /\ last' = ToolEvent("_rag_search", last.agent, found,
                         _rag_search(last.agent.retriever, found))
    /\ UNCHANGED <<memory_store, heap, calls, nextId, baseline_questions, bl, fresh>>

SparqlQuery(found) ==
    /\ ~last.agent.raised
    /\ last' = ToolEvent("_sparql_query", last.agent, found,
                         _sparql_query(last.agent.rdf_kb,
                                       last.agent.sparql_generator, found))
    /\ UNCHANGED <<memory_store, heap, calls, nextId, baseline_questions, bl, fresh>>

SimulateWorkflow(workflow_description) ==
    /\ ~last.agent.raised
    /\ last' = ToolEvent("_simulate_n8n_workflow", last.agent,
                         workflow_description,
                         _simulate_n8n_workflow(workflow_description))
    /\ UNCHANGED <<memory_store, heap, calls, nextId, baseline_questions, bl, fresh>>

EvaluateResponse(question, response) ==
    /\ ~last.agent.raised
    /\ last' = ToolEvent("_evaluate_baseline_response", last.agent,
                         [question |-> question, response |-> response],
                         _evaluate_baseline_response(question, response))
    /\ UNCHANGED <<memory_store, heap, calls, nextId, baseline_questions, bl, fresh>>

NextTools ==
    \/ \E env \in Environments : Construct(env)
    \/ \E found \in Found : RagSearch(found)
    \/ \E found \in Found : SparqlQuery(found)
    \/ \E d \in Descriptions : SimulateWorkflow(d)
    \/ \E question \in ScoreQuestions, response \in Responses :
           EvaluateResponse(question, response)

SpecTools == InitTools /\ [][NextTools]_vars

\* ------------------------------------------------------------------ claims
StoredMessages(user_id) == Messages(memory_store, heap, user_id)

\* the exchange of call `id` is stored as a user turn followed at once by
\* the agent turn of the same call
HasExchange(messages, id) ==
    \E k \in 1..(Len(messages) - 1) :
        /\ messages[k].role = "human" /\ messages[k].id = id
        /\ messages[k + 1].role = "ai" /\ messages[k + 1].id = id

ReturnedOk == last.op = "process_query" /\ last.outcome = "ok"

\* C1: get_user_conversation_history(U, 1000) returns at most K = 10 pairs,
\* and they are the K most recently appended exchanges (all of them when
\* there are no more than K), oldest first.
C1_HistoryKeepsLastK ==
    (last.op = "get_user_conversation_history" /\ last.limit = WindowLimit) =>
        /\ Len(last.history) <= K
        /\ last.history = SliceFrom(PairUp(StoredMessages(last.user_id)), -K)

\* C2: a process_query call that fails (the agent call raised, or its result
\* has no "output") leaves the user's stored messages as they were, and
\* returns confidence 0.0 with an error field.
C2_FailureLeavesHistory ==
    [][(last'.op = "process_query" /\ last'.outcome # "ok") =>
          /\ Messages(memory_store', heap', last'.user_id)
                 = StoredMessages(last'.user_id)
          /\ last'.result.confidence = ConfErr
          /\ last'.result.haserror]_vars

\* C3: in every reachable state every user's stored messages alternate,
\* starting with a user turn and ending with an agent turn.
C3_RolesAlternate ==
    \A u \in Users :
        LET messages == StoredMessages(u)
        IN /\ Len(messages) % 2 = 0
           /\ \A k \in DOMAIN messages :
                  messages[k].role = IF k % 2 = 1 THEN "human" ELSE "ai"

\* C4: when a process_query call returns successfully and no clear of its
\* user happened since it started, the user's history holds its exchange and
\* the exchange of every call that succeeded for that user while it was
\* suspended, each as an adjacent user/agent pair.
C4_ConcurrentExchangesKept ==
    (ReturnedOk /\ ~last.cleared) =>
        \A id \in last.seen \cup {last.id} :
            HasExchange(StoredMessages(last.user_id), id)

C4_Witness == ReturnedOk /\ ~last.cleared /\ last.seen # {}

\* the user turn call `id` left in the stored messages
UserTurnsOf(messages, id) ==
    {messages[k].content :
        k \in {j \in DOMAIN messages :
                 messages[j].role = "human" /\ messages[j].id = id}}

\* C5 as stated: the user turn a successful process_query stores is the
\* original query text, also when a non-empty context is supplied.
C5_StoresOriginalQuery ==
    (ReturnedOk /\ ~last.cleared) =>
        UserTurnsOf(StoredMessages(last.user_id), last.id) = {last.original}

\* C5 as amended: the user turn a successful process_query stores is the
\* text the agent was sent: the original query when the context is None or
\* empty, the context-augmented text when the context is non-empty.
C5_StoresQueryAsSent ==
    (ReturnedOk /\ ~last.cleared) =>
        UserTurnsOf(StoredMessages(last.user_id), last.id) =
            {IF last.ctx \in {CtxNone, CtxEmpty}
             THEN last.original
             ELSE <<"Context: ", json_dumps(last.ctx), "\n\nQuery: ">>
                      \o last.original}

C5_Witness == ReturnedOk /\ ~last.cleared /\ last.ctx = CtxTest

\* C6: after clear_user_memory(U), as long as no process_query for U is
\* started, get_user_conversation_history(U, n) returns the empty sequence
\* for every n, also when a process_query for U was suspended at the clear
\* and returns after it; and clear_user_memory of a user without a session
\* changes nothing.
C6_ClearedReadsEmpty ==
    /\ \A u \in Users : fresh[u] =>
          \A n \in Limits \cup {0, WindowLimit} :
              get_user_conversation_history(memory_store, heap, u, n) = <<>>
    /\ (last.op = "get_user_conversation_history" /\ fresh[last.user_id]) =>
          last.history = <<>>

C6_ClearAbsentNoOp ==
    (last'.op = "clear_user_memory" /\ memory_store[last'.user_id] = 0) =>
        UNCHANGED <<memory_store, heap, calls>>

C6_ClearThenEmpty == []C6_ClearedReadsEmpty /\ [][C6_ClearAbsentNoOp]_vars

C6_Witness ==
    /\ last.op = "get_user_conversation_history"
    /\ fresh[last.user_id]
    /\ \E o \in Objs : heap[o] # <<>> /\ \E c \in calls :
           c.user_id = last.user_id /\ c.cleared /\ c.memory = o

\* the user a step is an operation of
Actor(ev) == ev.user_id

\* C7: no operation on a user U changes the stored history of another user
\* V or makes V's session appear or disappear, and the history a suspended
\* process_query of U handed to the agent holds turns of U only.
C7_HandedOwnTurns ==
    \A c \in calls : \A k \in DOMAIN heap[c.memory] :
        heap[c.memory][k].by = c.user_id

C7_OthersUntouched ==
    \A v \in Users \ {Actor(last')} :
        /\ (memory_store'[v] = 0) = (memory_store[v] = 0)
        /\ Messages(memory_store', heap', v) = StoredMessages(v)

C7_NoCrossUser == []C7_HandedOwnTurns /\ [][C7_OthersUntouched]_vars

C7_Witness ==
    /\ last.op = "clear_user_memory"
    /\ \E v \in Users \ {last.user_id} : StoredMessages(v) # <<>>
    /\ \E c \in calls : heap[c.memory] # <<>>

\* C8: every process_query returns a result: confidence 0.85 and no error
\* field when it succeeded, confidence 0.0 and an error field when anything
\* failed; a result has an error field exactly when its confidence is 0.0.
C8_ResultWellFormed ==
    last.result # NoResult =>
        /\ last.outcome = "ok" =>
              last.result.confidence = ConfOk /\ ~last.result.haserror
        /\ last.outcome # "ok" =>
              /\ last.result.confidence = ConfErr
              /\ last.result.haserror
              /\ last.result.error # <<>>
        /\ last.result.haserror <=> last.result.confidence = ConfErr

C8_Witness ==
    /\ last.op = "process_query"
    /\ last.outcome = "malformed"
    /\ last.result.haserror

\* C9: after any run_baseline_test call is over, the reserved user has an
\* empty history.
C9_BaselineLeavesNoHistory ==
    last.op = "run_baseline_test" => StoredMessages(BaselineUser) = <<>>

\* C10: a selected baseline question without a "question" field does not
\* stop the run: run_baseline_test returns a report with one entry for each
\* selected question, the entry of the malformed one being passed = false
\* with confidence 0.0.
C10_MalformedQuestionCaught ==
    LET selected == SelectQuestions(baseline_questions, last.question_id)
    IN (/\ last.op = "run_baseline_test"
        /\ baseline_questions # <<>>
        /\ \E i \in DOMAIN selected : ~selected[i].hasq) =>
           /\ last.report.kind = "report"
           /\ Len(last.report.results) = Len(selected)
           /\ \A i \in DOMAIN selected : ~selected[i].hasq =>
                  /\ ~last.report.results[i].passed
                  /\ last.report.results[i].confidence = 0

\* the questions of the loaded set that question_id selects, before the
\* cut to the first BaselineCap (lines 626-628)
Matching(questions, question_id) ==
    IF question_id # NoQuestionId
    THEN SelectSeq(questions, LAMBDA q : q.id = question_id)
    ELSE questions

\* the questions process_query was called for, in the order of the calls:
\* each awaited call leaves one entry in results
AskedIds(results) == [i \in DOMAIN results |-> results[i].question_id]

\* C11: a run_baseline_test over a loaded question set calls process_query
\* for exactly the first min(5, n) of the n selected questions, in their
\* stored order, and returns a report whose total_questions is min(5, n).
C11_FirstFiveInOrder ==
    LET matching == Matching(baseline_questions, last.question_id)
        m == Min(BaselineCap, Len(matching))
    IN (last.op = "run_baseline_test" /\ baseline_questions # <<>>) =>
           /\ AskedIds(last.report.results) = [i \in 1..m |-> matching[i].id]
           /\ last.report.kind = "report"
           /\ last.report.total_questions = m

\* C12: a run_baseline_test that selects no question, the loaded set being
\* empty or question_id matching none of it, returns a normal report with
\* total 0, passed 0 and mean confidence 0.
C12_NoSelectionNormalReport ==
    (/\ last.op = "run_baseline_test"
     /\ Matching(baseline_questions, last.question_id) = <<>>) =>
        /\ last.report.kind = "report"
        /\ last.report.total_questions = 0
        /\ last.report.passed = 0
        /\ last.report.average_confidence.sum = 0

\* C12 as amended: when question_id matches none of a non-empty loaded set
\* the run returns a normal report with total 0, passed 0, mean confidence
\* 0 and no entries; when the loaded set is empty it returns the error
\* result "No baseline questions available" instead of a report.
C12_NoMatchNormalReport ==
    (/\ last.op = "run_baseline_test"
     /\ Matching(baseline_questions, last.question_id) = <<>>) =>
        IF baseline_questions # <<>>
        THEN /\ last.report.kind = "report"
             /\ last.report.total_questions = 0
             /\ last.report.passed = 0
             /\ last.report.average_confidence.sum = 0
             /\ last.report.results = <<>>
        ELSE last.report = NoQuestionsError

C12_Witness ==
    /\ last.op = "run_baseline_test"
    /\ baseline_questions # <<>>
    /\ last.question_id # NoQuestionId
    /\ Matching(baseline_questions, last.question_id) = <<>>
    /\ last.report.kind = "report"

\* C17: when process_query returns success for U, its exchange (the query
\* as sent and the agent's output) is the last pair of U's history as
\* get_user_conversation_history returns it at that moment.
C17_ReturnedExchangeIsLastPair ==
    ReturnedOk =>
        LET history == get_user_conversation_history(
                           memory_store, heap, last.user_id, DefaultLimit)
        IN /\ history # <<>>
           /\ history[Len(history)] =
                  [user_message |-> QueryAsSent(last.original, last.ctx),
                   agent_response |-> last.result.response]

\* C13: get_user_conversation_history(U, limit) with limit >= 0 returns the
\* most recent min(limit, n) of U's n stored exchanges, oldest first, each
\* pair a user turn with the agent's reply to it; none for limit = 0 and
\* none for a user without a session, for whom no session is created.
C13_HistoryLastLimit ==
    last.op = "get_user_conversation_history" =>
        LET exchanges == PairUp(StoredMessages(last.user_id))
            n == Len(exchanges)
            m == Min(last.limit, n)
        IN /\ Len(last.history) = m
           /\ last.history = SubSeq(exchanges, n - m + 1, n)
           /\ memory_store[BaselineUser] = 0

\* C14: when rag/vectorstore or rag/knowledge_base.ttl is absent at
\* construction, __init__ completes without raising, the collaborator's
\* tool is left out of the catalog, and its adapter answers with the
\* explicit "not available" message.
C14_AbsentCollaboratorDegrades ==
    (/\ last.op = "__init__"
     /\ "absent" \in {last.input.vectorstore, last.input.knowledge_base}
     /\ last.input.baseline # "broken") =>
        /\ ~last.agent.raised
        /\ last.input.vectorstore = "absent" =>
               /\ \A i \in DOMAIN last.agent.tools :
                      last.agent.tools[i] # "marketing_knowledge_search"
               /\ \A found \in Found :
                      _rag_search(last.agent.retriever, found)
                          = <<"RAG retrieval not available">>
        /\ last.input.knowledge_base = "absent" =>
               /\ \A i \in DOMAIN last.agent.tools :
                      last.agent.tools[i] # "structured_marketing_query"
               /\ \A found \in Found :
                      _sparql_query(last.agent.rdf_kb,
                                    last.agent.sparql_generator, found)
                          = <<"RDF knowledge base not available">>

\* C15: the workflow simulator returns the content-approval bundle for
\* "content approval process", the campaign-optimization bundle for
\* "optimize campaign spend", and the generic fallback bundle for an input
\* that names neither content approval nor campaign optimization.
C15_WorkflowBundles ==
    last.op = "_simulate_n8n_workflow" =>
        /\ last.input = ContentApprovalProcess =>
               last.output = ContentApprovalBundle
        /\ last.input = OptimizeCampaignSpend =>
               last.output = CampaignOptimizationBundle
        /\ last.input \in {ContentCalendar, WeeklyNewsletter, <<>>} =>
               last.output = GenericBundle

\* C15 as amended: the content-approval bundle is returned when the
\* lowercased input holds both "content" and "approval", as "content
\* approval process" does; otherwise the campaign-optimization bundle when
\* it holds both "campaign" and "optimization"; otherwise the generic
\* fallback bundle, which is what "optimize campaign spend" gets.
C15_WorkflowBySubstrings ==
    last.op = "_simulate_n8n_workflow" =>
        LET d == LowerChars(last.input)
            content == IsSubstring(WordContent, d) /\ IsSubstring(WordApproval, d)
            campaign == /\ IsSubstring(WordCampaign, d)
                        /\ IsSubstring(WordOptimization, d)
        IN /\ content => last.output = ContentApprovalBundle
           /\ (~content /\ campaign) => last.output = CampaignOptimizationBundle
           /\ (~content /\ ~campaign) => last.output = GenericBundle
           /\ last.input = ContentApprovalProcess =>
                  last.output = ContentApprovalBundle
           /\ last.input = OptimizeCampaignSpend => last.output = GenericBundle

C15_Witness ==
    /\ last.op = "_simulate_n8n_workflow"
    /\ last.input = OptimizeCampaignSpend
    /\ last.output.workflow_name = "Generic Marketing Automation"

\* the response holds every keyword of the question, whatever the case
AllKeywordsIn(question, response) ==
    \A i \in DOMAIN question.keywords :
        Contains(lower(response), Lower(question.keywords[i]))

\* the response holds at least one of the six domain terms and is at
\* least 200 characters long
OnTopicAndLong(response) ==
    /\ \E i \in DOMAIN marketing_terms :
           Contains(lower(response), marketing_terms[i])
    /\ TextLen(response) >= LongEnough

\* C16: for every question, one with an empty keyword list included, a
\* response that holds all its keywords and a domain term and is at least
\* 200 characters long scores at least 0.6 and passes.
C16_GoodResponsePasses ==
    (/\ last.op = "_evaluate_baseline_response"
     /\ last.input.question.kwok
     /\ AllKeywordsIn(last.input.question, last.input.response)
     /\ OnTopicAndLong(last.input.response)) =>
        /\ last.output.confidence >= PassMark
        /\ last.output.passed

\* C16 as amended: for every question with a non-empty keyword list, a
\* response that holds all its keywords and a domain term and is at least
\* 200 characters long scores at least 0.6 and passes.
C16_GoodResponsePassesWithKeywords ==
    (/\ last.op = "_evaluate_baseline_response"
     /\ last.input.question.kwok
     /\ last.input.question.keywords # <<>>
     /\ AllKeywordsIn(last.input.question, last.input.response)
     /\ OnTopicAndLong(last.input.response)) =>
        /\ last.output.confidence >= PassMark
        /\ last.output.passed

C16_Witness ==
    /\ last.op = "_evaluate_baseline_response"
    /\ last.input.question = QThreeKeywords
    /\ AllKeywordsIn(last.input.question, last.input.response)
    /\ OnTopicAndLong(last.input.response)
    /\ last.output.passed

====
